---- MODULE Spec2Model ----
(***************************************************************************)
(* Model of github.com/olivere/integrationtest: the container cache        *)
(* (ContainerCache.GetOrCreate / Close), the container lifecycle (Start,   *)
(* Container.Close) and the PostgreSQL template/clone mechanism            *)
(* (Container.StartFromTemplate).                                          *)
(*                                                                         *)
(* Goroutines are the threads of the model.  Every call of the Docker      *)
(* runtime, of the SQL server and of a caller-supplied function is one     *)
(* step, so that other goroutines can interleave between them.             *)
(***************************************************************************)
EXTENDS Integers, FiniteSets, Sequences, TLC

\* ---------------------------------------------------------------- bounds
NumThreads == 2
MaxHandles == 2
MaxStarts == 1
MaxClones == 2
MaxClock == 1
MaxWrap == 2
MaxConnections == 3
MaxProbes == 2

Threads == 1..NumThreads
Handles == 1..MaxHandles
Keys == {"one", "two"}
Packages == {"elasticsearch", "postgres"}

VARIABLES
    pkg,        \* the package the test binary uses (fixed)
    crashed,    \* an unrecovered panic has ended the process
    cache,      \* ContainerCache.cache: key -> handle
    cmu,        \* ContainerCache.mu: 0 or the thread that holds it
    nextH,      \* number of Container objects allocated so far
    hd,         \* the Container objects and their runtime instance
    dbs,        \* per instance: the databases of its PostgreSQL server
    clones,     \* what StartFromTemplate has returned, in order
    now,        \* last value read from the clock
    th,         \* the goroutines: call in progress and position in it
    ev,         \* the call that returned in the last step, if one did
    gh,         \* history per handle
    gk,         \* history per key since the mapping was last replaced
    gocReturned,\* history: handles ever returned by GetOrCreate
    swept,      \* history: handles returned before a successful Cache.Close
    hk,         \* per handle: the hooks given to Start and those it ran
    cl,         \* a value, the predicate it was given to and the answer
    adm,        \* the databases of a server and the last call that managed them
    pr          \* a response and an error, the parser they went to, its result

vars == <<pkg, crashed, cache, cmu, nextH, hd, dbs, clones, now, th, ev, gh,
          gk, gocReturned, swept, hk, cl, adm,
          pr>>

\* ------------------------------------------------------------ data model

\* Container{} as allocated by Start, before anything was launched.
\* inst is the state of the Docker container behind c.resource.
NewContainer(tmpl) ==
    [mu |-> 0, closed |-> FALSE, isTemplate |-> tmpl, inst |-> "none",
     db |-> "nil", expiry |-> FALSE]

NoHistory == [start |-> "none", closeCalled |-> FALSE, closeOK |-> FALSE]

NoKeyHistory == [creations |-> 0, ret |-> {}]

\* opts: the WithPostStart options of the Start call, each a list of
\* hooks; ran: the hooks Start has called, in the order of the calls;
\* failed: a hook returned an error; given: the WithTimeout option of the
\* call in seconds, 0 for none; expireIn: the seconds after which the
\* runtime was told to kill the instance, 0 as long as it was not told.
NoHooks ==
    [opts |-> <<>>, ran |-> <<>>, failed |-> FALSE, given |-> 0,
     expireIn |-> 0]

IdleThread ==
    [op |-> "none", pc |-> "idle", key |-> "", h |-> 0, todo |-> {},
     ts |-> 0, okBefore |-> FALSE, fx |-> {}, hooks |-> <<>>, timeout |-> 0,
     probes |-> 0]

\* A call returns: which call (of rec), on what, with which result.  via
\* is "cclose" for a Close called by the loop of ContainerCache.Close.
Returned(rec, op, r) ==
    [op |-> op, via |-> rec.op, key |-> rec.key, h |-> rec.h, res |-> r,
     okBefore |-> rec.okBefore, fx |-> rec.fx, ts |-> rec.ts]

NoEvent == Returned(IdleThread, "none", "")

Quiet == ev' = NoEvent

\* startConfig.databaseName default, the POSTGRES_DB of the instance.
DatabaseName == <<"integrationtest">>

\* fmt.Sprintf("%s_%09d", c.databaseName, time.Now().UnixNano())
CloneName(ts) == DatabaseName \o <<ts>>

\* pgx.Identifier{name}.Sanitize(): the name wrapped in double quotes.
Sanitize(name) == <<"\"">> \o name \o <<"\"">>

NoDatabases == [n \in {} |-> 0]

\* The server of a freshly launched instance: POSTGRES_DB exists, empty.
FreshServer ==
    IF pkg = "postgres"
      THEN [n \in {DatabaseName} |-> [data |-> {}, istemplate |-> FALSE]]
      ELSE NoDatabases

\* UPDATE pg_database SET datistemplate = v WHERE datname = '<lit>'
UpdateTemplateFlag(srv, lit, v) ==
    [n \in DOMAIN srv |->
        IF n = lit THEN [srv[n] EXCEPT !.istemplate = v] ELSE srv[n]]

\* A liveness probe against the handle: Ping(c.Client()) / c.DB().Ping().
Probe(h) ==
    /\ hd[h].inst = "running"
    /\ hd[h].db = "open"

\* A value as the predicates on errors get it.  kind: its dynamic type,
\* "nil" for the nil interface; nilptr: a nil pointer of that type; id:
\* which errors.New value it is; code: PgError.Code; status: the HTTP
\* status it holds; inner: the error it wraps, if it wraps one.
Value(kind, nilptr, id, code, status) ==
    [kind |-> kind, nilptr |-> nilptr, id |-> id, code |-> code,
     status |-> status, inner |-> <<>>]

\* The nil interface value.
NilValue == Value("nil", FALSE, "", "", 0)

\* No predicate was asked yet; err is the value at hand.
Query(err) == [err |-> err, pred |-> "", res |-> ""]

NoQuery == Query(NilValue)

\* An error value as ParseError and ParseHTTPResponse return it.  kind:
\* "nil", "err" (the error they were given), "decode" (the error of the
\* JSON decoder) or "*Error"; status and reason: the fields of the *Error,
\* reason "" for Details == nil.
Outcome(kind, status, reason) ==
    [kind |-> kind, status |-> status, reason |-> reason]

NilError == Outcome("nil", 0, "")

\* A response: isnil for a nil pointer, else the status code and the body.
Response(isnil, code, body) == [isnil |-> isnil, code |-> code, body |-> body]

NilResponse == Response(TRUE, 0, <<>>)

\* res and err as a call of the client returned them, not parsed yet;
\* err is "nil" or "err".
Parse(res, err) == [res |-> res, err |-> err, op |-> "", out |-> NilError]

NoParse == Parse(NilResponse, "nil")

\* The maintenance database the management functions connect to.
Postgres == <<"postgres">>

\* A server as Start leaves it, seen by a test that manages the database
\* name on it.  exists: the databases of the server; sess: the databases
\* the test has opened a client on; conns: the connections the management
\* calls have opened and not closed; op, before, res: the last management
\* call, whether name existed when it was made, and what it returned
\* ("error" for false together with an error).
Server(name) ==
    [name |-> name, exists |-> {DatabaseName, Postgres}, sess |-> {},
     conns |-> 0, op |-> "", before |-> FALSE, res |-> ""]

NoAdmin == Server(<<>>)

\* p.cache = make(map[string]*Container)
EmptyCache == [k \in {} |-> 0]

\* The goroutine that makes the next call. Goroutines that are in no call
\* are alike, so the call is given to the first of them.
Free(t) ==
    /\ th[t].pc = "idle"
    /\ \A u \in Threads : u < t => th[u].pc # "idle"

\* A test binary that has not started any container yet.
NoContainers ==
    /\ pkg \in Packages
    /\ crashed = FALSE
    /\ cache = EmptyCache
    /\ cmu = 0
    /\ nextH = 0
    /\ hd = [h \in Handles |-> NewContainer(FALSE)]
    /\ dbs = [h \in Handles |-> NoDatabases]
    /\ clones = <<>>
    /\ now = 0
    /\ th = [t \in Threads |-> IdleThread]
    /\ ev = NoEvent
    /\ gh = [h \in Handles |-> NoHistory]
    /\ gk = [k \in Keys |-> NoKeyHistory]
    /\ gocReturned = {}
    /\ swept = {}
    /\ hk = [h \in Handles |-> NoHooks]

Init ==
    /\ NoContainers
    /\ cl = NoQuery
    /\ adm = NoAdmin
    /\ pr = NoParse

\* ------------------------------------------------------------------ Start

TemplateOptions == IF pkg = "postgres" THEN BOOLEAN ELSE {FALSE}

\* c := &Container{...}: the next handle, with the options applied.
Allocate(h, tmpl) ==
    /\ nextH < MaxHandles
    /\ h = nextH + 1
    /\ nextH' = h
    /\ hd' = [hd EXCEPT ![h] = NewContainer(tmpl)]
    /\ gh' = [gh EXCEPT ![h].start = "running"]

\* tb.Fatal / tb.Fatalf inside Start: the goroutine exits, its deferred
\* calls run (GetOrCreate's p.mu.Unlock), nothing is returned and nothing
\* is stored in the cache.
Fatal(t) ==
    /\ th' = [th EXCEPT ![t] = IdleThread]
    /\ ev' = Returned(th[t], th[t].op, "exit")
    /\ gh' = [gh EXCEPT ![th[t].h].start = "aborted"]
    /\ IF th[t].op = "goc"
         THEN /\ cmu' = 0
              /\ gk' = [gk EXCEPT ![th[t].key].creations = @ - 1]
         ELSE UNCHANGED <<cmu, gk>>

\* func WithPostStart(funcs ...postStartFunc) startConfigFunc:
\* cfg.postStart = funcs, on a startConfig whose postStart is postStart.
WithPostStart(postStart, funcs) == funcs

\* Start's for _, o := range options { o(&startCfg) }: startCfg.postStart
\* after the WithPostStart options opts were applied in turn.
RECURSIVE PostStart(_)
PostStart(opts) ==
    IF opts = <<>> THEN <<>>
    ELSE WithPostStart(PostStart(SubSeq(opts, 1, Len(opts) - 1)),
                       opts[Len(opts)])

\* WithTimeout(10*time.Second), which all the tests pass to Start.
TestTimeout == 10

\* timeout = 60 * time.Second
DefaultTimeout == 60

\* A Start that takes the timeout as given.
Timeout_NoDefault(given) == given

\* timeout := startCfg.timeout; if timeout == 0 { timeout = 60 s }
Timeout(given) == IF given = 0 THEN DefaultTimeout ELSE given

\* Start(tb, WithIsTemplate(tmpl), WithTimeout(given), opts...) called
\* directly by a test.
StartWith(t, tmpl, opts, given) ==
    /\ ~crashed
    /\ Free(t)
    /\ nextH < MaxStarts
    /\ \E h \in Handles :
          /\ Allocate(h, tmpl)
          /\ th' = [th EXCEPT ![t] = [IdleThread EXCEPT !.op = "start",
                                         !.pc = "st_launch", !.h = h,
                                         !.hooks = PostStart(opts),
                                         !.timeout = Timeout(given)]]
          /\ hk' = [hk EXCEPT ![h] = [NoHooks EXCEPT !.opts = opts,
                                                     !.given = given]]
    /\ Quiet
    /\ UNCHANGED <<pkg, cl, adm, pr, crashed, cache, cmu, dbs, clones, now, gk,
                   gocReturned, swept>>

\* The hook of the tests that seed their database.
SeedHook == "seed"

\* Start called with WithTimeout and one WithPostStart option that holds
\* one hook.
StartCall(t, tmpl) == StartWith(t, tmpl, <<<<SeedHook>>>>, TestTimeout)

\* dockertest.NewPool, Ping, pool.RunWithOptions, tb.Cleanup(c.Close).
StartLaunch(t) ==
    /\ ~crashed
    /\ th[t].pc = "st_launch"
    /\ LET h == th[t].h IN
       \/ /\ hd' = [hd EXCEPT ![h].inst = "running"]
          /\ dbs' = [dbs EXCEPT ![h] = FreshServer]
          /\ th' = [th EXCEPT ![t].pc = "st_expire"]
          /\ Quiet
          /\ UNCHANGED <<cmu, gh, gk>>
       \/ /\ Fatal(t)
          /\ UNCHANGED <<hd, dbs>>
    /\ UNCHANGED <<pkg, cl, adm, pr, hk, crashed, cache, nextH, clones, now, gocReturned,
                   swept>>

\* c.resource.Expire(timeout): the runtime will kill the instance.
StartExpire(t) ==
    /\ ~crashed
    /\ th[t].pc = "st_expire"
    /\ LET h == th[t].h IN
       \/ /\ hd' = [hd EXCEPT ![h].expiry = TRUE]
          /\ hk' = [hk EXCEPT ![h].expireIn = th[t].timeout]
          /\ th' = [th EXCEPT ![t].pc = "st_connect"]
          /\ Quiet
          /\ UNCHANGED <<cmu, gh, gk>>
       \/ /\ Fatal(t)
          /\ UNCHANGED <<hd, hk>>
    /\ UNCHANGED <<pkg, cl, adm, pr, crashed, cache, nextH, dbs, clones, now, gocReturned,
                   swept>>

\* Where Start goes on once the hooks left to call are hooks.
HooksPc(h, hooks) ==
    IF hooks # <<>> THEN "st_hooks"
    ELSE IF hd[h].isTemplate THEN "st_tmpl" ELSE "st_ret"

\* c.pool.Retry(connect / ping): ready within the timeout, or fatal.
StartConnect(t) ==
    /\ ~crashed
    /\ th[t].pc = "st_connect"
    /\ LET h == th[t].h IN
       \/ /\ hd[h].inst = "running"
          /\ hd' = [hd EXCEPT ![h].db = "open"]
          /\ th' = [th EXCEPT ![t].pc = HooksPc(h, th[t].hooks)]
          /\ Quiet
          /\ UNCHANGED <<cmu, gh, gk>>
       \/ /\ Fatal(t)
          /\ UNCHANGED hd
    /\ UNCHANGED <<pkg, cl, adm, pr, hk, crashed, cache, nextH, dbs, clones, now, gocReturned,
                   swept>>

\* A retry that gives up when the probe answers with a wrong status.
Retriable_OnlyErrors(answer) == answer = "error"

\* What the retried function returns as an error, for pool.Retry to call
\* it again: a connect or ping that failed ("error"), and in the Ping of
\* Elasticsearch a status other than 200 ("not ready").
Retriable(answer) == answer # "ready"

\* One call of the function that c.pool.Retry retries, and what Retry
\* does with its result: nil ends the retry, an error is followed by the
\* next call unless the time c.pool.MaxWait is used up, which here is the
\* case after MaxProbes failed calls.
StartProbe(t) ==
    /\ ~crashed
    /\ th[t].pc = "st_connect"
    /\ LET h == th[t].h IN
       \E answer \in {"ready", "error", "not ready"} :
          /\ answer = "ready" => hd[h].inst = "running"
          /\ answer = "not ready" => pkg = "elasticsearch"
          /\ IF Retriable(answer)
               THEN IF th[t].probes < MaxProbes
                      THEN /\ th' = [th EXCEPT ![t].probes = @ + 1]
                           /\ Quiet
                           /\ UNCHANGED <<hd, cmu, gh, gk>>
                      ELSE /\ Fatal(t)
                           /\ UNCHANGED hd
               ELSE IF answer = "ready"
                      THEN /\ hd' = [hd EXCEPT ![h].db = "open"]
                           /\ th' = [th EXCEPT ![t].pc = HooksPc(h, th[t].hooks)]
                           /\ Quiet
                           /\ UNCHANGED <<cmu, gh, gk>>
                      ELSE /\ Fatal(t)
                           /\ UNCHANGED hd
    /\ UNCHANGED <<pkg, cl, adm, pr, hk, crashed, cache, nextH, dbs, clones, now,
                   gocReturned, swept>>

\* What the post-start hooks of the tests do: seed the database.
Seed(srv) ==
    [n \in DOMAIN srv |->
        IF n = DatabaseName THEN [srv[n] EXCEPT !.data = @ \cup {0}]
        ELSE srv[n]]

\* The hooks Start has called, after it called f.
Called(h, f, failed) ==
    [hk EXCEPT ![h].ran = Append(@, f), ![h].failed = failed]

\* A Start that goes on to the next hook after err = f(c) gave an error.
HookError_Ignored(t) ==
    /\ hk' = Called(th[t].h, Head(th[t].hooks), TRUE)
    /\ th' = [th EXCEPT ![t].hooks = Tail(@),
                        ![t].pc = HooksPc(th[t].h, Tail(th[t].hooks))]
    /\ Quiet
    /\ UNCHANGED <<cmu, gh, gk, dbs>>

\* err = f(c); if err != nil { tb.Fatalf(...) }
HookError(t) ==
    /\ hk' = Called(th[t].h, Head(th[t].hooks), TRUE)
    /\ Fatal(t)
    /\ UNCHANGED dbs

\* for _, f := range startCfg.postStart { err = f(c) ... }: one turn.
StartHooks(t) ==
    /\ ~crashed
    /\ th[t].pc = "st_hooks"
    /\ LET h == th[t].h IN
       \/ /\ dbs' = [dbs EXCEPT ![h] = Seed(@)]
          /\ hk' = Called(h, Head(th[t].hooks), FALSE)
          /\ th' = [th EXCEPT ![t].hooks = Tail(@),
                              ![t].pc = HooksPc(h, Tail(th[t].hooks))]
          /\ Quiet
          /\ UNCHANGED <<cmu, gh, gk>>
       \/ HookError(t)
    /\ UNCHANGED <<pkg, cl, adm, pr, crashed, cache, nextH, hd, clones, now, gocReturned,
                   swept>>

\* if c.isTemplate { UPDATE pg_database SET datistemplate = TRUE ... }
StartTemplate(t) ==
    /\ ~crashed
    /\ th[t].pc = "st_tmpl"
    /\ LET h == th[t].h IN
       \/ /\ Probe(h)
          /\ dbs' = [dbs EXCEPT
                       ![h] = UpdateTemplateFlag(@, Sanitize(DatabaseName), TRUE)]
          /\ th' = [th EXCEPT ![t].pc = "st_ret"]
          /\ Quiet
          /\ UNCHANGED <<cmu, gh, gk>>
       \/ /\ Fatal(t)
          /\ UNCHANGED dbs
    /\ UNCHANGED <<pkg, cl, adm, pr, hk, crashed, cache, nextH, hd, clones, now, gocReturned,
                   swept>>

\* return c, to the test that called Start.
StartReturn(t) ==
    /\ ~crashed
    /\ th[t].pc = "st_ret"
    /\ th[t].op = "start"
    /\ th' = [th EXCEPT ![t] = IdleThread]
    /\ ev' = Returned(th[t], "start", "ok")
    /\ gh' = [gh EXCEPT ![th[t].h].start = "returned"]
    /\ UNCHANGED <<pkg, cl, adm, pr, hk, crashed, cache, cmu, nextH, hd, dbs, clones, now, gk,
                   gocReturned, swept>>

\* The expiry registered by Start fires: the runtime kills the instance
\* (AutoRemove: the container is gone), whether the test process still
\* runs or not.
Expire(h) ==
    /\ hd[h].expiry
    /\ hd[h].inst = "running"
    /\ hd' = [hd EXCEPT ![h].inst = "expired"]
    /\ dbs' = [dbs EXCEPT ![h] = NoDatabases]
    /\ Quiet
    /\ UNCHANGED <<pkg, cl, adm, pr, hk, crashed, cache, cmu, nextH, clones, now, th, gh, gk,
                   gocReturned, swept>>

\* -------------------------------------------------------- Container.Close

\* A handle somebody can still call Close on: Start returned it, or Start
\* was aborted after tb.Cleanup(c.Close) had been registered.
Closable(h) ==
    /\ gh[h].start \in {"returned", "aborted"}
    /\ hd[h].inst # "none"

\* A Close without its deferred c.mu.Unlock().
Unlocked_Never(t) == t

\* defer c.mu.Unlock(): c.mu once the Close of the goroutine t returns.
Unlocked(t) == 0

\* A Close that does not look at c.closed.
AlreadyClosed_Never(h) == FALSE

\* A Close that returns at once unless c.closed.
AlreadyClosed_Inverted(h) == ~hd[h].closed

\* if c.closed { return nil }
AlreadyClosed(h) == hd[h].closed

\* A Close that purges without reverting the template flag first.
MustRevert_Never(h) == FALSE

\* if c.isTemplate { ... revert ... }
MustRevert(h) == hd[h].isTemplate

\* A Close that sets c.closed before it calls Purge.
ClosedAfterFailedPurge_Set(h) == TRUE

\* The value of c.closed when Close returns the error of a failed Purge.
ClosedAfterFailedPurge(h) == hd[h].closed

\* A Close that sets c.closed before it reverts the template flag.
ClosedAfterFailedRevert_Set(h) == TRUE

\* The value of c.closed when Close returns the error of the UPDATE that
\* reverts the template flag.
ClosedAfterFailedRevert(h) == hd[h].closed

\* A step of Close by the goroutine rec: fx collects what the call has
\* asked of the database server and of the runtime, and how that ended.
Did(rec, what) == [rec EXCEPT !.fx = @ \cup {what}]

\* A loop of ContainerCache.Close that drops the errors of c.Close().
CacheCloseStops_Never(rec, r) == FALSE

\* In the loop of ContainerCache.Close:
\* if err := c.Close(); err != nil { return err }
CacheCloseStops(rec, r) == rec.op = "cclose" /\ r # "nil"

\* Where Close's result r goes: to the test that called Close, or to the
\* loop of ContainerCache.Close, which goes on after nil and returns the
\* first error (its deferred p.mu.Unlock runs).
AfterClose(rec, r) ==
    IF rec.op = "cclose" /\ ~CacheCloseStops(rec, r)
      THEN [rec EXCEPT !.pc = "cc_iter"]
      ELSE IdleThread

CloseReturns(t, rec, r) ==
    /\ th' = [th EXCEPT ![t] = AfterClose(rec, r)]
    /\ ev' = Returned(rec, "close", r)
    /\ cmu' = IF CacheCloseStops(rec, r) THEN 0 ELSE cmu
    /\ crashed' = (r = "panic")
    /\ gh' = [gh EXCEPT ![rec.h].closeCalled = TRUE,
                        ![rec.h].closeOK = @ \/ (r = "nil")]

\* c.mu.Lock(); defer c.mu.Unlock(); if c.closed { return nil }
\* rec is the caller's record, with the handle in rec.h.
CloseEnter(t, rec) ==
    LET h == rec.h IN
    /\ hd[h].mu = 0
    /\ IF AlreadyClosed(h)
         THEN /\ CloseReturns(t, rec, "nil")
              /\ UNCHANGED hd
         ELSE /\ hd' = [hd EXCEPT ![h].mu = t]
              /\ th' = [th EXCEPT ![t] = [rec EXCEPT !.pc =
                          IF MustRevert(h) THEN "cl_revert" ELSE "cl_purge"]]
              /\ gh' = [gh EXCEPT ![h].closeCalled = TRUE]
              /\ Quiet
              /\ UNCHANGED <<crashed, cmu>>

\* c.Close() called by a test, a deferred call or the registered cleanup.
CloseCall(t, h) ==
    /\ ~crashed
    /\ Free(t)
    /\ Closable(h)
    /\ CloseEnter(t, [IdleThread EXCEPT !.op = "close", !.h = h,
                                        !.okBefore = gh[h].closeOK])
    /\ UNCHANGED <<pkg, cl, adm, pr, hk, cache, nextH, dbs, clones, now, gk, gocReturned,
                   swept>>

\* UPDATE pg_database SET datistemplate = FALSE ..., through c.db.
CloseRevert(t) ==
    /\ ~crashed
    /\ th[t].pc = "cl_revert"
    /\ LET h == th[t].h IN
       IF hd[h].db = "nil"
         THEN \* c.db.Exec on a nil *sql.DB
              /\ hd' = [hd EXCEPT ![h].mu = Unlocked(t)]
              /\ CloseReturns(t, th[t], "panic")
              /\ UNCHANGED dbs
         ELSE \/ /\ Probe(h)
                 /\ dbs' = [dbs EXCEPT ![h] =
                       UpdateTemplateFlag(@, Sanitize(DatabaseName), FALSE)]
                 /\ th' = [th EXCEPT ![t] =
                              [Did(th[t], "revert") EXCEPT !.pc = "cl_purge"]]
                 /\ Quiet
                 /\ UNCHANGED <<crashed, cmu, hd, gh>>
              \/ /\ hd' = [hd EXCEPT ![h].mu = Unlocked(t),
                                     ![h].closed = ClosedAfterFailedRevert(h)]
                 /\ CloseReturns(t, Did(th[t], "revert failed"), "err")
                 /\ UNCHANGED dbs
    /\ UNCHANGED <<pkg, cl, adm, pr, hk, cache, nextH, clones, now, gk, gocReturned, swept>>

\* err := c.pool.Purge(c.resource); if err != nil { return ... }
\* The runtime removes a running container; one that is gone is an error.
ClosePurge(t) ==
    /\ ~crashed
    /\ th[t].pc = "cl_purge"
    /\ LET h == th[t].h IN
       \/ /\ hd[h].inst = "running"
          /\ hd' = [hd EXCEPT ![h].inst = "purged"]
          /\ dbs' = [dbs EXCEPT ![h] = NoDatabases]
          /\ th' = [th EXCEPT ![t] =
                       [Did(th[t], "purge") EXCEPT !.pc = "cl_db"]]
          /\ Quiet
          /\ UNCHANGED <<crashed, cmu, gh>>
       \/ /\ hd' = [hd EXCEPT ![h].mu = Unlocked(t),
                              ![h].closed = ClosedAfterFailedPurge(h)]
          /\ CloseReturns(t, Did(th[t], "purge failed"), "err")
          /\ UNCHANGED dbs
    /\ UNCHANGED <<pkg, cl, adm, pr, hk, cache, nextH, clones, now, gk, gocReturned, swept>>

\* c.closed = true; return c.db.Close()   (elasticsearch: return nil)
CloseDB(t) ==
    /\ ~crashed
    /\ th[t].pc = "cl_db"
    /\ LET h == th[t].h IN
       IF pkg = "elasticsearch"
         THEN /\ hd' = [hd EXCEPT ![h].mu = Unlocked(t), ![h].closed = TRUE]
              /\ CloseReturns(t, th[t], "nil")
         ELSE IF hd[h].db = "nil"
         THEN \* c.db.Close on a nil *sql.DB
              /\ hd' = [hd EXCEPT ![h].mu = Unlocked(t), ![h].closed = TRUE]
              /\ CloseReturns(t, th[t], "panic")
         ELSE /\ hd' = [hd EXCEPT ![h].mu = Unlocked(t), ![h].closed = TRUE,
                                  ![h].db = "closed"]
              /\ \/ CloseReturns(t, Did(th[t], "dbclose"), "nil")
                 \/ CloseReturns(t, Did(th[t], "dbclose failed"), "err")
    /\ UNCHANGED <<pkg, cl, adm, pr, hk, cache, nextH, dbs, clones, now, gk, gocReturned,
                   swept>>

\* ---------------------------------------------------------- ContainerCache

\* A GetOrCreate that does not look the id up.
CacheHit_Never(k) == FALSE

\* if c, ok := p.cache[id]; ok
CacheHit(k) == k \in DOMAIN cache

\* p.cache[id] = c
CachePut(k, h) ==
    [x \in DOMAIN cache \cup {k} |-> IF x = k THEN h ELSE cache[x]]

\* A GetOrCreate that unlocks p.mu before it calls createFunc.
CacheLock_Released(t) == 0

\* p.mu.Lock(); defer p.mu.Unlock(): who holds p.mu while GetOrCreate of
\* the goroutine t calls createFunc.
CacheLock(t) == t

\* The createFunc of the tests: Start(t, WithTimeout(10*time.Second)).
CreateFuncOptions == {FALSE}

\* cache.GetOrCreate(id, createFunc): p.mu.Lock(); a hit returns the pooled
\* container (the deferred Unlock runs), a miss calls createFunc, here a
\* Start, with p.mu held.
GetOrCreate(t, k) ==
    /\ ~crashed
    /\ Free(t)
    /\ cmu = 0
    /\ IF CacheHit(k)
         THEN /\ th' = th
              /\ ev' = Returned([IdleThread EXCEPT !.op = "goc", !.key = k,
                                    !.h = cache[k]], "goc", "hit")
              /\ gk' = [gk EXCEPT ![k].ret = @ \cup {cache[k]}]
              /\ gocReturned' = gocReturned \cup {cache[k]}
              /\ UNCHANGED <<cmu, nextH, hd, gh, hk>>
         ELSE /\ \E h \in Handles, tmpl \in CreateFuncOptions :
                    /\ Allocate(h, tmpl)
                    /\ th' = [th EXCEPT ![t] = [IdleThread EXCEPT
                                  !.op = "goc", !.pc = "st_launch",
                                  !.key = k, !.h = h,
                                  !.timeout = Timeout(TestTimeout)]]
                    /\ hk' = [hk EXCEPT ![h].given = TestTimeout]
              /\ cmu' = CacheLock(t)
              /\ Quiet
              /\ gk' = [gk EXCEPT ![k].creations = @ + 1]
              /\ UNCHANGED gocReturned
    /\ UNCHANGED <<pkg, cl, adm, pr, crashed, cache, dbs, clones, now, swept>>

\* cache.GetOrCreate(id, createFunc) with a createFunc that returns nil
\* (0 here): on a miss c := createFunc(); p.cache[id] = c; return c.
GetOrCreateNil(t, k) ==
    /\ ~crashed
    /\ Free(t)
    /\ cmu = 0
    /\ ~CacheHit(k)
    /\ cache' = CachePut(k, 0)
    /\ ev' = Returned([IdleThread EXCEPT !.op = "goc", !.key = k], "goc",
                      "created")
    /\ gk' = [gk EXCEPT ![k].creations = @ + 1]
    /\ UNCHANGED <<pkg, cl, adm, pr, hk, crashed, cmu, nextH, hd, dbs, clones,
                   now, th, gh, gocReturned, swept>>

\* c := createFunc() has returned: p.cache[id] = c; return c (and unlock).
GetOrCreateStore(t) ==
    /\ ~crashed
    /\ th[t].pc = "st_ret"
    /\ th[t].op = "goc"
    /\ LET k == th[t].key
           h == th[t].h IN
       /\ cache' = CachePut(k, h)
       /\ cmu' = 0
       /\ th' = [th EXCEPT ![t] = IdleThread]
       /\ ev' = Returned(th[t], "goc", "created")
       /\ gh' = [gh EXCEPT ![h].start = "returned"]
       /\ gk' = [gk EXCEPT ![k].ret = @ \cup {h}]
       /\ gocReturned' = gocReturned \cup {h}
    /\ UNCHANGED <<pkg, cl, adm, pr, hk, crashed, nextH, hd, dbs, clones, now, swept>>

\* cache.Close(): p.mu.Lock(); defer p.mu.Unlock(); then the loop.
CacheClose(t) ==
    /\ ~crashed
    /\ Free(t)
    /\ cmu = 0
    /\ cmu' = t
    /\ th' = [th EXCEPT ![t] = [IdleThread EXCEPT !.op = "cclose",
                                   !.pc = "cc_iter", !.todo = DOMAIN cache]]
    /\ Quiet
    /\ UNCHANGED <<pkg, cl, adm, pr, hk, crashed, cache, nextH, hd, dbs, clones, now, gh, gk,
                   gocReturned, swept>>

\* for _, c := range p.cache { if err := c.Close() ... }: one turn, on
\* some entry not visited yet.
CacheCloseIter(t) ==
    /\ ~crashed
    /\ th[t].pc = "cc_iter"
    /\ \E k \in th[t].todo :
          IF cache[k] \notin Handles
            THEN \* c.Close() on a nil *Container: c.mu.Lock() panics
                 /\ th' = [th EXCEPT ![t] = IdleThread]
                 /\ ev' = Returned([th[t] EXCEPT !.h = 0, !.key = k,
                                             !.fx = {}], "cclose", "panic")
                 /\ cmu' = 0
                 /\ crashed' = TRUE
                 /\ UNCHANGED <<hd, gh>>
            ELSE CloseEnter(t, [th[t] EXCEPT !.h = cache[k], !.todo = @ \ {k},
                                            !.okBefore = gh[cache[k]].closeOK,
                                            !.fx = {}])
    /\ UNCHANGED <<pkg, cl, adm, pr, hk, cache, nextH, dbs, clones, now, gk, gocReturned,
                   swept>>

\* The value of p.cache when Close returns nil.
CacheAfterClose == EmptyCache

\* The loop is over: p.cache = make(map[string]*Container); return nil.
CacheCloseDone(t) ==
    /\ ~crashed
    /\ th[t].pc = "cc_iter"
    /\ th[t].todo = {}
    /\ cache' = CacheAfterClose
    /\ cmu' = 0
    /\ th' = [th EXCEPT ![t] = IdleThread]
    /\ ev' = Returned(th[t], "cclose", "nil")
    /\ gk' = [k \in Keys |-> NoKeyHistory]
    /\ swept' = swept \cup gocReturned
    /\ UNCHANGED <<pkg, cl, adm, pr, hk, crashed, nextH, hd, dbs, clones, now, gh,
                   gocReturned>>

\* ------------------------------------------------ Container.StartFromTemplate

\* A StartFromTemplate without its check of c.isTemplate.
IsTemplateHandle_Always(h) == TRUE

\* if !c.isTemplate { tb.Fatal(...) }
IsTemplateHandle(h) == hd[h].isTemplate

\* The database named by the dsn that the clone's client connects to:
\* Sprintf(".../%s?sslmode=disable", c.hostPort, c.databaseName)
CloneDsnDatabase(databaseName) == DatabaseName

\* The database named by the *pgx.ConnConfig that is returned:
\* pgx.ParseConfig(c.dsn)
CloneConfigDatabase(databaseName) == DatabaseName

\* Clients of clones that hold a session on database n of instance h.
SessionsOn(h, n) ==
    {j \in 1..Len(clones) :
        clones[j].tmpl = h /\ clones[j].conn = n /\ clones[j].open}

\* CREATE DATABASE <name> TEMPLATE <src> through c.db: a copy of src as it
\* is now.  The server refuses while the name is taken, while src does not
\* exist and while another session is connected to src.
CanCopy(h, name, src) ==
    /\ Probe(h)
    /\ src \in DOMAIN dbs[h]
    /\ name \notin DOMAIN dbs[h]
    /\ SessionsOn(h, src) = {}

CopyDatabase(srv, name, src) ==
    [n \in DOMAIN srv \cup {name} |->
        IF n = name THEN [data |-> srv[src].data, istemplate |-> FALSE]
        ELSE srv[n]]

\* c.StartFromTemplate(tb) on a handle that Start returned: the check of
\* c.isTemplate, then databaseName := Sprintf(..., time.Now().UnixNano())
\* and c.db.Exec(CREATE DATABASE databaseName TEMPLATE c.databaseName).
StartFromTemplate(t, h) ==
    /\ ~crashed
    /\ Free(t)
    /\ pkg = "postgres"
    /\ gh[h].start = "returned"
    /\ Len(clones) < MaxClones
    /\ LET rec == [IdleThread EXCEPT !.op = "sft", !.h = h,
                                     !.okBefore = gh[h].closeOK] IN
       IF ~IsTemplateHandle(h)
         THEN /\ th' = th
              /\ ev' = Returned(rec, "sft", "exit")
              /\ UNCHANGED <<dbs, now>>
         ELSE \E ts \in now..MaxClock :
                /\ now' = ts
                /\ \/ /\ CanCopy(h, CloneName(ts), DatabaseName)
                      /\ dbs' = [dbs EXCEPT ![h] =
                            CopyDatabase(@, CloneName(ts), DatabaseName)]
                      /\ th' = [th EXCEPT ![t] = [rec EXCEPT
                                    !.pc = "sft_connect", !.ts = ts,
                                    !.fx = {"copy"}]]
                      /\ Quiet
                   \/ /\ th' = th
                      /\ ev' = Returned([Did(rec, "copy failed") EXCEPT !.ts = ts],
                                        "sft", "exit")
                      /\ UNCHANGED dbs
    /\ UNCHANGED <<pkg, cl, adm, pr, hk, crashed, cache, cmu, nextH, hd, clones, gh, gk,
                   gocReturned, swept>>

\* dsn := ...; ccfg := pgx.ParseConfig(...); db := Connect(ctx, dsn);
\* return db, ccfg, func() error { return db.Close() }
\* early: the clone was there before any Close of its template was called.
StartFromTemplateConnect(t) ==
    /\ ~crashed
    /\ th[t].pc = "sft_connect"
    /\ LET h == th[t].h
           name == CloneName(th[t].ts) IN
       \/ /\ hd[h].inst = "running"
          /\ CloneDsnDatabase(name) \in DOMAIN dbs[h]
          /\ clones' = Append(clones,
                 [tmpl |-> h, name |-> name, conn |-> CloneDsnDatabase(name),
                  cfgdb |-> CloneConfigDatabase(name), open |-> TRUE,
                  closerRun |-> FALSE, wrote |-> FALSE,
                  early |-> ~gh[h].closeCalled])
          /\ th' = [th EXCEPT ![t] = IdleThread]
          /\ ev' = Returned(Did(th[t], "connect"), "sft", "ok")
       \/ /\ th' = [th EXCEPT ![t] = IdleThread]
          /\ ev' = Returned(Did(th[t], "connect failed"), "sft", "exit")
          /\ UNCHANGED clones
    /\ UNCHANGED <<pkg, cl, adm, pr, hk, crashed, cache, cmu, nextH, hd, dbs, now, gh, gk,
                   gocReturned, swept>>

\* The client of clone j can reach the database it is connected to.
CloneReachable(j) ==
    /\ clones[j].open
    /\ hd[clones[j].tmpl].inst = "running"
    /\ clones[j].conn \in DOMAIN dbs[clones[j].tmpl]

\* A test writes a record of its own, j, through the client of clone j.
CloneWrite(j) ==
    /\ ~crashed
    /\ j \in 1..Len(clones)
    /\ CloneReachable(j)
    /\ ~clones[j].wrote
    /\ dbs' = [dbs EXCEPT ![clones[j].tmpl][clones[j].conn].data = @ \cup {j}]
    /\ clones' = [clones EXCEPT ![j].wrote = TRUE]
    /\ Quiet
    /\ UNCHANGED <<pkg, cl, adm, pr, hk, crashed, cache, cmu, nextH, hd, now, th, gh, gk,
                   gocReturned, swept>>

\* What the closer leaves of the server's databases.
DatabasesAfterCloser(srv, name) == srv

\* The closer returned with clone j: func() error { return db.Close() }
CloneCloser(j) ==
    /\ ~crashed
    /\ j \in 1..Len(clones)
    /\ ~clones[j].closerRun
    /\ clones' = [clones EXCEPT ![j].open = FALSE, ![j].closerRun = TRUE]
    /\ dbs' = [dbs EXCEPT ![clones[j].tmpl] =
                  DatabasesAfterCloser(@, clones[j].name)]
    /\ Quiet
    /\ UNCHANGED <<pkg, cl, adm, pr, hk, crashed, cache, cmu, nextH, hd, now, th, gh, gk,
                   gocReturned, swept>>

\* ---------------------------------------------------- error classification

\* net/http: the status codes the predicates ask for.
StatusUnauthorized == 401
StatusForbidden == 403
StatusNotFound == 404
StatusRequestTimeout == 408
StatusConflict == 409

\* Status codes none of the predicates asks for.
OtherStatuses == {200, 500}

Statuses ==
    {StatusUnauthorized, StatusForbidden, StatusNotFound,
     StatusRequestTimeout, StatusConflict} \cup OtherStatuses

\* The PostgreSQL error codes the predicates ask for, and 57014
\* (query_canceled), which none asks for.
PgCodes == {"23503", "23505", "42501", "42P04", "3D000", "42710", "57014"}

\* errors.New(id): sql.ErrNoRows, pgx.ErrNoRows, or some other error.
Sentinel(id) == Value("*errors.errorString", FALSE, id, "", 0)

\* &pgconn.PgError{Code: code}
PgError(code) == Value("*pgconn.PgError", FALSE, "", code, 0)

\* The types IsStatusCode knows, in the order of its cases.
StatusKinds == {"*esapi.Response", "*http.Response", "*Error", "Error", "int"}

\* The types among them that are pointers.
PointerKinds == {"*esapi.Response", "*http.Response", "*Error", "*pgconn.PgError"}

\* The types that implement error: func (e *Error) Error() string, ...
ErrorKinds ==
    {"*errors.errorString", "*pgconn.PgError", "*Error", "*fmt.wrapError"}

\* fmt.Errorf("kaboom: %w", e)
Wrap(e) == [Value("*fmt.wrapError", FALSE, "", "", 0) EXCEPT !.inner = <<e>>]

\* errors.Unwrap(e)
Unwrap(e) == IF e.inner = <<>> THEN NilValue ELSE e.inner[1]

\* How many times e was wrapped.
RECURSIVE Depth(_)
Depth(e) == IF e.inner = <<>> THEN 0 ELSE 1 + Depth(Unwrap(e))

\* The error at the bottom of the chain of e.
RECURSIVE Cause(_)
Cause(e) == IF e.inner = <<>> THEN e ELSE Cause(Unwrap(e))

\* errors.Is(err, target) for a target that is not nil: walks the chain.
RECURSIVE Is(_, _)
Is(err, target) ==
    IF err = NilValue THEN FALSE
    ELSE IF err = target THEN TRUE
    ELSE Is(Unwrap(err), target)

\* errors.As(err, &pgxerr) with pgxerr a *pgconn.PgError: the first error
\* of the chain that has this type, <<>> if there is none.
RECURSIVE As(_)
As(err) ==
    IF err = NilValue THEN <<>>
    ELSE IF err.kind = "*pgconn.PgError" THEN <<err>>
    ELSE As(Unwrap(err))

\* A bool, or the panic of a nil pointer dereference.
Bool(b) == IF b THEN "true" ELSE "false"

\* postgres.IsPSQLError
IsPSQLError(err, code) ==
    IF err = NilValue THEN "false"
    ELSE LET pgxerr == As(err) IN
         IF pgxerr # <<>>
           THEN IF pgxerr[1].nilptr THEN "panic"
                ELSE Bool(pgxerr[1].code = code)
           ELSE "false"

\* elasticsearch.IsStatusCode: a switch on the type of err itself.
IsStatusCode(err, code) ==
    IF err.kind \in StatusKinds
      THEN IF err.nilptr THEN "panic" ELSE Bool(err.status = code)
      ELSE "false"

\* postgres.IsNotFound and elasticsearch.IsNotFound
IsNotFound(err) ==
    IF pkg = "postgres"
      THEN Bool(Is(err, Sentinel("sql.ErrNoRows"))
                  \/ Is(err, Sentinel("pgx.ErrNoRows")))
      ELSE IsStatusCode(err, StatusNotFound)

IsForeignKeyViolation(err) == IsPSQLError(err, "23503")

IsDup(err) == IsPSQLError(err, "23505")

IsPerm(err) == IsPSQLError(err, "42501")

IsDupDB(err) == IsPSQLError(err, "42P04")

IsDBNotExists(err) == IsPSQLError(err, "3D000")

IsDupUser(err) == IsPSQLError(err, "42710")

IsTimeout(err) == IsStatusCode(err, StatusRequestTimeout)

IsConflict(err) == IsStatusCode(err, StatusConflict)

IsUnauthorized(err) == IsStatusCode(err, StatusUnauthorized)

IsForbidden(err) == IsStatusCode(err, StatusForbidden)

\* The predicates of the package of the test binary.
Predicates ==
    IF pkg = "postgres"
      THEN {"IsNotFound", "IsForeignKeyViolation", "IsDup", "IsPerm",
            "IsDupDB", "IsDBNotExists", "IsDupUser"}
      ELSE {"IsNotFound", "IsTimeout", "IsConflict", "IsUnauthorized",
            "IsForbidden"}

AllPredicates ==
    {"IsNotFound", "IsForeignKeyViolation", "IsDup", "IsPerm", "IsDupDB",
     "IsDBNotExists", "IsDupUser", "IsTimeout", "IsConflict",
     "IsUnauthorized", "IsForbidden"}

\* The call p(err).
Apply(p, err) ==
    CASE p = "IsNotFound" -> IsNotFound(err)
      [] p = "IsForeignKeyViolation" -> IsForeignKeyViolation(err)
      [] p = "IsDup" -> IsDup(err)
      [] p = "IsPerm" -> IsPerm(err)
      [] p = "IsDupDB" -> IsDupDB(err)
      [] p = "IsDBNotExists" -> IsDBNotExists(err)
      [] p = "IsDupUser" -> IsDupUser(err)
      [] p = "IsTimeout" -> IsTimeout(err)
      [] p = "IsConflict" -> IsConflict(err)
      [] p = "IsUnauthorized" -> IsUnauthorized(err)
      [] p = "IsForbidden" -> IsForbidden(err)

\* The values a test has at hand before it wraps them: nil, nil pointers,
\* errors of the standard library, and what the service reported.
Errors ==
    IF pkg = "postgres"
      THEN {NilValue, Value("*pgconn.PgError", TRUE, "", "", 0),
            Sentinel("sql.ErrNoRows"), Sentinel("pgx.ErrNoRows"),
            Sentinel("kaboom")}
           \cup {PgError(c) : c \in PgCodes}
      ELSE {NilValue, Sentinel("kaboom")}
           \cup {Value(k, TRUE, "", "", 0) : k \in StatusKinds \cap PointerKinds}
           \cup {Value(k, FALSE, "", "", s) : k \in StatusKinds, s \in Statuses}

\* A test that has one value at hand.
InitClassify ==
    /\ NoContainers
    /\ \E err \in Errors : cl = Query(err)
    /\ adm = NoAdmin
    /\ pr = NoParse

\* The test decorates the error: err = fmt.Errorf("kaboom: %w", err).
WrapError ==
    /\ ~crashed
    /\ cl.pred = ""
    /\ cl.err.kind \in ErrorKinds
    /\ ~cl.err.nilptr
    /\ Depth(cl.err) < MaxWrap
    /\ cl' = [cl EXCEPT !.err = Wrap(@)]
    /\ UNCHANGED <<pkg, adm, pr, crashed, cache, cmu, nextH, hd, dbs, clones, now,
                   th, ev, gh, gk, gocReturned, swept, hk>>

\* The test asks the predicate p about its value; a panic ends it.
Classify(p) ==
    /\ ~crashed
    /\ cl.pred = ""
    /\ p \in Predicates
    /\ cl' = [cl EXCEPT !.pred = p, !.res = Apply(p, cl.err)]
    /\ crashed' = (Apply(p, cl.err) = "panic")
    /\ UNCHANGED <<pkg, adm, pr, cache, cmu, nextH, hd, dbs, clones, now, th, ev,
                   gh, gk, gocReturned, swept, hk>>

\* ------------------------------------------------------ database management

\* connString of the test: a database the server does not have yet.
NewDatabase == <<"new-database">>

\* The names a test manages: none, a new one, the database of the
\* container, the maintenance database.
DatabaseNames == {<<>>, NewDatabase, DatabaseName, Postgres}

\* The server accepts one more connection (max_connections).
Accepts(a) == a.conns < MaxConnections

\* Somebody is connected to the database n: a client of the test, the
\* client c.db of the container, or the management call itself.
InUse(a, n) == n \in a.sess \/ n = DatabaseName \/ n = Postgres

\* The call op has run its statement on a connection of
\* db := stdlib.OpenDB(*cfg), which it leaves open.
Managed(a, op, res, exists) ==
    [a EXCEPT !.op = op, !.before = a.name \in a.exists, !.res = res,
              !.exists = exists, !.conns = @ + 1]

\* The call op returns false and an error.
ManageFailed(a, op) ==
    [a EXCEPT !.op = op, !.before = a.name \in a.exists, !.res = "error"]

\* What every management call does first: o.Database == "" is an error,
\* and so is a server that refuses the connection.
CanManage(a) == a.name # <<>> /\ Accepts(a)

\* postgres.DatabaseExists: SELECT 1 FROM pg_database WHERE datname=$1
DatabaseExists ==
    /\ ~crashed
    /\ adm' = IF ~CanManage(adm) THEN ManageFailed(adm, "exists")
              ELSE Managed(adm, "exists", Bool(adm.name \in adm.exists),
                           adm.exists)
    /\ UNCHANGED <<pkg, cl, pr, crashed, cache, cmu, nextH, hd, dbs, clones, now,
                   th, ev, gh, gk, gocReturned, swept, hk>>

\* postgres.CreateDatabaseIfNotExists: CREATE DATABASE "name"; IsDupDB
\* (42P04) is false without an error.
CreateDatabaseIfNotExists ==
    /\ ~crashed
    /\ adm' = IF ~CanManage(adm) THEN ManageFailed(adm, "create")
              ELSE IF adm.name \in adm.exists
                THEN Managed(adm, "create", "false", adm.exists)
                ELSE Managed(adm, "create", "true",
                             adm.exists \cup {adm.name})
    /\ UNCHANGED <<pkg, cl, pr, crashed, cache, cmu, nextH, hd, dbs, clones, now,
                   th, ev, gh, gk, gocReturned, swept, hk>>

\* postgres.DropDatabaseIfExists: DROP DATABASE "name"; IsDBNotExists
\* (3D000) is false without an error; the server refuses to drop a
\* database somebody is connected to (55006), and that is an error.
DropDatabaseIfExists ==
    /\ ~crashed
    /\ adm' = IF ~CanManage(adm) THEN ManageFailed(adm, "drop")
              ELSE IF adm.name \notin adm.exists
                THEN Managed(adm, "drop", "false", adm.exists)
              ELSE IF InUse(adm, adm.name)
                THEN Managed(adm, "drop", "error", adm.exists)
                ELSE Managed(adm, "drop", "true", adm.exists \ {adm.name})
    /\ UNCHANGED <<pkg, cl, pr, crashed, cache, cmu, nextH, hd, dbs, clones, now,
                   th, ev, gh, gk, gocReturned, swept, hk>>

\* postgres.Connect(ctx, connString): the test opens a client on the
\* database it manages.
Connect ==
    /\ ~crashed
    /\ adm.name \in adm.exists
    /\ adm.name \notin adm.sess
    /\ adm' = [adm EXCEPT !.sess = @ \cup {adm.name}, !.op = ""]
    /\ UNCHANGED <<pkg, cl, pr, crashed, cache, cmu, nextH, hd, dbs, clones, now,
                   th, ev, gh, gk, gocReturned, swept, hk>>

\* db.Close() on the client the test opened.
Disconnect ==
    /\ ~crashed
    /\ adm.name \in adm.sess
    /\ adm' = [adm EXCEPT !.sess = @ \ {adm.name}, !.op = ""]
    /\ UNCHANGED <<pkg, cl, pr, crashed, cache, cmu, nextH, hd, dbs, clones, now,
                   th, ev, gh, gk, gocReturned, swept, hk>>

\* TestDatabaseManagement after Start has returned the container.
InitDatabase ==
    /\ NoContainers
    /\ pkg = "postgres"
    /\ cl = NoQuery
    /\ \E name \in DatabaseNames : adm = Server(name)
    /\ pr = NoParse

\* ------------------------------------------------------ response parsing

\* Response bodies: a JSON error object with status and error.reason, one
\* without "error", one whose "error" is a string and not an object, text
\* that is not JSON, and the empty body.
Bodies ==
    {<<"json", StatusNotFound, "no such index">>,
     <<"json", StatusConflict, "">>,
     <<"error is a string", StatusNotFound, "">>,
     <<"not json", 0, "">>,
     <<"empty", 0, "">>}

\* The status codes of responses: two that are no errors, the first that
\* is one, and two more.
ResponseCodes == OtherStatuses \cup {299, 300, StatusNotFound}

Responses ==
    {NilResponse} \cup {Response(FALSE, c, b) : c \in ResponseCodes, b \in Bodies}

\* json.NewDecoder(body).Decode(&e): whether it returned an error, and e
\* afterwards.  A field of the wrong type is an error, the other fields
\* are decoded all the same.
Decode(body) ==
    CASE body[1] = "json" ->
           [failed |-> FALSE, e |-> Outcome("*Error", body[2], body[3])]
      [] body[1] = "error is a string" ->
           [failed |-> TRUE, e |-> Outcome("*Error", body[2], "")]
      [] OTHER ->
           [failed |-> TRUE, e |-> Outcome("*Error", 0, "")]

\* esapi.Response.IsError
IsError(res) == res.code > 299

\* A ParseError that returns &e when the decoder failed and the outer err
\* when it did not.
ParseError_Inverted(res, err) ==
    IF err # "nil" THEN Outcome("err", 0, "")
    ELSE IF res.isnil \/ ~IsError(res) THEN NilError
    ELSE IF Decode(res.body).failed THEN Decode(res.body).e
    ELSE NilError

\* elasticsearch.ParseError
ParseError(res, err) ==
    IF err # "nil" THEN Outcome("err", 0, "")
    ELSE IF res.isnil \/ ~IsError(res) THEN NilError
    ELSE IF Decode(res.body).failed THEN Outcome("decode", 0, "")
    ELSE Decode(res.body).e

\* elasticsearch.ParseHTTPResponse: inside the if, err is the decoder's
\* error; in the return after it, err is the parameter, which is nil there.
ParseHTTPResponse(res, err) ==
    IF err # "nil" THEN Outcome("err", 0, "")
    ELSE IF res.isnil \/ res.code < 300 THEN NilError
    ELSE IF Decode(res.body).failed THEN Decode(res.body).e
    ELSE Outcome(IF err = "nil" THEN "nil" ELSE "err", 0, "")

\* What a call of the client returned.
InitParse ==
    /\ NoContainers
    /\ pkg = "elasticsearch"
    /\ cl = NoQuery
    /\ adm = NoAdmin
    /\ \E res \in Responses, err \in {"nil", "err"} : pr = Parse(res, err)

\* err = elasticsearch.ParseError(res, err)
CallParseError ==
    /\ ~crashed
    /\ pr.op = ""
    /\ pr' = [pr EXCEPT !.op = "ParseError", !.out = ParseError(pr.res, pr.err)]
    /\ UNCHANGED <<pkg, cl, adm, crashed, cache, cmu, nextH, hd, dbs, clones,
                   now, th, ev, gh, gk, gocReturned, swept, hk>>

\* err = elasticsearch.ParseHTTPResponse(res, err)
CallParseHTTPResponse ==
    /\ ~crashed
    /\ pr.op = ""
    /\ pr' = [pr EXCEPT !.op = "ParseHTTPResponse",
                        !.out = ParseHTTPResponse(pr.res, pr.err)]
    /\ UNCHANGED <<pkg, cl, adm, crashed, cache, cmu, nextH, hd, dbs, clones,
                   now, th, ev, gh, gk, gocReturned, swept, hk>>

\* ------------------------------------------------------------ specification

\* Tests that share one ContainerCache: every container is started by a
\* createFunc of GetOrCreate.
NextCache ==
    \/ \E t \in Threads, k \in Keys : GetOrCreate(t, k)
    \/ \E t \in Threads : StartLaunch(t)
    \/ \E t \in Threads : StartExpire(t)
    \/ \E t \in Threads : StartConnect(t)
    \/ \E t \in Threads : GetOrCreateStore(t)
    \/ \E h \in Handles : Expire(h)
    \/ \E t \in Threads, h \in Handles : CloseCall(t, h)
    \/ \E t \in Threads : ClosePurge(t)
    \/ \E t \in Threads : CloseDB(t)
    \/ \E t \in Threads : CacheClose(t)
    \/ \E t \in Threads : CacheCloseIter(t)
    \/ \E t \in Threads : CacheCloseDone(t)

SpecCache == Init /\ [][NextCache]_vars

\* The same tests, with goroutines that go on with the call they are in
\* (createFunc and the calls to the runtime return) and mutexes that do
\* not starve a goroutine waiting in Lock: the loop of
\* ContainerCache.Close gets the mutex of a container that is released
\* again and again.
FairCache ==
    /\ SpecCache
    /\ \A t \in Threads :
          WF_vars(StartLaunch(t) \/ StartExpire(t) \/ StartConnect(t)
                    \/ GetOrCreateStore(t))
    /\ \A t \in Threads : WF_vars(ClosePurge(t) \/ CloseDB(t))
    /\ \A t \in Threads : SF_vars(CacheCloseIter(t) \/ CacheCloseDone(t))

\* Tests that share one ContainerCache and also pass GetOrCreate a
\* createFunc that returns no container.
NextNil ==
    \/ NextCache
    \/ \E t \in Threads, k \in Keys : GetOrCreateNil(t, k)

SpecNil == Init /\ [][NextNil]_vars

\* Tests that start their containers themselves and close them.
NextLifecycle ==
    \/ \E t \in Threads, tmpl \in TemplateOptions : StartCall(t, tmpl)
    \/ \E t \in Threads : StartLaunch(t)
    \/ \E t \in Threads : StartExpire(t)
    \/ \E t \in Threads : StartConnect(t)
    \/ \E t \in Threads : StartHooks(t)
    \/ \E t \in Threads : StartTemplate(t)
    \/ \E t \in Threads : StartReturn(t)
    \/ \E h \in Handles : Expire(h)
    \/ \E t \in Threads, h \in Handles : CloseCall(t, h)
    \/ \E t \in Threads : CloseRevert(t)
    \/ \E t \in Threads : ClosePurge(t)
    \/ \E t \in Threads : CloseDB(t)

SpecLifecycle == Init /\ [][NextLifecycle]_vars

\* The same tests, with a runtime that keeps its word: an expiry that was
\* registered for a running instance does fire.
FairLifecycle == SpecLifecycle /\ \A h \in Handles : WF_vars(Expire(h))

\* The lists of WithPostStart options a test passes to Start: none, one
\* option with two hooks, two options with one hook each.
PostStartOptions ==
    {<<>>, <<<<"a", "b">>>>, <<<<"a">>, <<"b">>>>}

\* The timeouts a test passes to Start: none, or WithTimeout.
TimeoutOptions == {0, TestTimeout}

\* Tests that pass post-start hooks to Start.
NextHooks ==
    \/ \E t \in Threads, tmpl \in TemplateOptions, opts \in PostStartOptions,
          given \in TimeoutOptions :
          StartWith(t, tmpl, opts, given)
    \/ \E t \in Threads : StartLaunch(t)
    \/ \E t \in Threads : StartExpire(t)
    \/ \E t \in Threads : StartConnect(t)
    \/ \E t \in Threads : StartHooks(t)
    \/ \E t \in Threads : StartTemplate(t)
    \/ \E t \in Threads : StartReturn(t)
    \/ \E h \in Handles : Expire(h)
    \/ \E t \in Threads, h \in Handles : CloseCall(t, h)
    \/ \E t \in Threads : CloseRevert(t)
    \/ \E t \in Threads : ClosePurge(t)
    \/ \E t \in Threads : CloseDB(t)

SpecHooks == Init /\ [][NextHooks]_vars

\* The same tests, with a runtime that keeps its word, goroutines that go
\* on with the call they are in, and a test framework that runs the
\* cleanup of a Start that was aborted.
FairHooks ==
    /\ SpecHooks
    /\ \A h \in Handles : WF_vars(Expire(h))
    /\ \A t \in Threads :
          WF_vars(StartLaunch(t) \/ StartExpire(t) \/ StartConnect(t)
                    \/ StartHooks(t) \/ StartTemplate(t) \/ StartReturn(t))
    /\ \A t \in Threads :
          WF_vars(CloseRevert(t) \/ ClosePurge(t) \/ CloseDB(t))
    /\ \A h \in Handles :
          WF_vars(gh[h].start = "aborted" /\ \E t \in Threads : CloseCall(t, h))

\* Tests that also clone the template containers they started.
NextTemplate ==
    \/ NextLifecycle
    \/ \E t \in Threads, h \in Handles : StartFromTemplate(t, h)
    \/ \E t \in Threads : StartFromTemplateConnect(t)
    \/ \E j \in 1..MaxClones : CloneWrite(j)
    \/ \E j \in 1..MaxClones : CloneCloser(j)

SpecTemplate == Init /\ [][NextTemplate]_vars

\* Tests of the predicates on errors.
NextClassify ==
    \/ WrapError
    \/ \E p \in AllPredicates : Classify(p)

SpecClassify == InitClassify /\ [][NextClassify]_vars

\* Tests that create and drop databases on the server of a container.
NextDatabase ==
    \/ DatabaseExists
    \/ CreateDatabaseIfNotExists
    \/ DropDatabaseIfExists
    \/ Connect
    \/ Disconnect

SpecDatabase == InitDatabase /\ [][NextDatabase]_vars

\* Callers that parse what the Elasticsearch client returned.
NextParse ==
    \/ CallParseError
    \/ CallParseHTTPResponse

SpecParse == InitParse /\ [][NextParse]_vars

\* Tests that start and close containers, with the readiness retry of
\* Start taken one probe at a time.
NextReady ==
    \/ \E t \in Threads, tmpl \in TemplateOptions : StartCall(t, tmpl)
    \/ \E t \in Threads : StartLaunch(t)
    \/ \E t \in Threads : StartExpire(t)
    \/ \E t \in Threads : StartProbe(t)
    \/ \E t \in Threads : StartHooks(t)
    \/ \E t \in Threads : StartTemplate(t)
    \/ \E t \in Threads : StartReturn(t)
    \/ \E h \in Handles : Expire(h)
    \/ \E t \in Threads, h \in Handles : CloseCall(t, h)
    \/ \E t \in Threads : CloseRevert(t)
    \/ \E t \in Threads : ClosePurge(t)
    \/ \E t \in Threads : CloseDB(t)

SpecReady == Init /\ [][NextReady]_vars

\* ------------------------------------------------------------------ claims

\* A createFunc that tb.Fatal ended returned no container: gk[k].creations
\* counts the invocations for k, since the cache was last emptied, that
\* returned one or are still running.

C2_CloseIdempotent ==
    /\ ev.op = "close" /\ ev.okBefore => ev.res = "nil" /\ ev.fx = {}
    /\ \A t \in Threads :
          th[t].pc \in {"cl_revert", "cl_purge", "cl_db"} => ~th[t].okBefore

\* A Close that followed a successful Close has returned.
C2_Witness ==
    /\ ev.op = "close"
    /\ ev.okBefore
    /\ ev.res = "nil"
    /\ hd[ev.h].closed
    /\ hd[ev.h].inst = "purged"

\* C3: a Close whose terminate step failed returns the error and leaves
\* closed false, so that the next Close gets to the terminate step again;
\* closed is true only on a container whose instance a terminate removed.
C3_ClosedOnlyAfterPurge ==
    /\ ev.op = "close" /\ "purge failed" \in ev.fx =>
          /\ ev.res = "err"
          /\ ~hd[ev.h].closed
    /\ \A h \in Handles : hd[h].closed => hd[h].inst = "purged"

\* A Close has just returned the error of its terminate step.
C3_Witness ==
    /\ ev.op = "close"
    /\ "purge failed" \in ev.fx
    /\ ev.res = "err"
    /\ gh[ev.h].start = "returned"

\* C4: when ContainerCache.Close has returned nil, every container that
\* GetOrCreate returned before is closed, a probe of it fails, and the
\* mapping is empty.
C4_CacheCloseClosesAll ==
    /\ ev.op = "cclose" /\ ev.res = "nil" =>
          /\ cache = EmptyCache
          /\ \A h \in gocReturned : hd[h].closed /\ ~Probe(h)
    /\ \A h \in swept : hd[h].closed /\ ~Probe(h)

\* ContainerCache.Close has returned nil after closing a container that
\* was running.
C4_Witness ==
    /\ ev.op = "cclose"
    /\ ev.res = "nil"
    /\ \E h \in gocReturned : hd[h].inst = "purged" /\ gh[h].closeOK

\* C5, as the specification states it: a container that Start returned
\* answers a probe at every moment before Close is called on it, and
\* answers none once a Close of it has returned nil.
C5_ProbeUntilClose ==
    \A h \in Handles :
        gh[h].start = "returned" =>
            /\ ~gh[h].closeCalled => Probe(h)
            /\ gh[h].closeOK => ~Probe(h)

\* C5: a container that Start returned answers a probe at every moment
\* before Close is called on it and before the expiry safeguard has ended
\* its instance, and answers none once a Close of it has returned nil.
C5_ProbeUntilCloseOrExpiry ==
    \A h \in Handles :
        gh[h].start = "returned" =>
            /\ ~gh[h].closeCalled /\ hd[h].inst # "expired" => Probe(h)
            /\ gh[h].closeOK => ~Probe(h)

\* A Close of a container that Start returned, and that nothing but this
\* Close has ended, has just returned nil.
C5_Witness ==
    /\ ev.op = "close"
    /\ ev.res = "nil"
    /\ ~ev.okBefore
    /\ "purge" \in ev.fx
    /\ gh[ev.h].start = "returned"
    /\ gh[ev.h].closeOK
    /\ ~Probe(ev.h)

\* The data a client connected to the database n of container h reads.
DataIn(h, n) == IF n \in DOMAIN dbs[h] THEN dbs[h][n].data ELSE {}

\* C6: what a test wrote through the client of one clone is read neither
\* through the client of another clone of the same template nor in the
\* template's own database.
C6_ClonesIsolated ==
    \A a \in 1..Len(clones) :
        clones[a].wrote =>
            /\ a \notin DataIn(clones[a].tmpl, DatabaseName)
            /\ \A b \in 1..Len(clones) :
                  b # a /\ clones[b].tmpl = clones[a].tmpl /\ CloneReachable(b)
                      => a \notin DataIn(clones[b].tmpl, clones[b].conn)

\* C7: the client StartFromTemplate returns is connected to the database
\* it has just copied, and the connection configuration it returns names
\* that database.
C7_ClientOnClone ==
    \A j \in 1..Len(clones) :
        /\ clones[j].conn = clones[j].name
        /\ clones[j].cfgdb = clones[j].name

\* C8: once Close of a template has returned nil, the clones made from it
\* before are still reachable through their clients and their databases
\* still exist, and a StartFromTemplate called after that fails.
C8_ClonesOutliveTemplate ==
    /\ \A j \in 1..Len(clones) :
          gh[clones[j].tmpl].closeOK /\ clones[j].early /\ clones[j].open =>
              /\ CloneReachable(j)
              /\ clones[j].name \in DOMAIN dbs[clones[j].tmpl]
    /\ ev.op = "sft" /\ ev.okBefore => ev.res = "exit"

\* C9: StartFromTemplate on a container that is no template ends the test
\* at once: it sends no copy command, opens no client and makes no clone.
C9_NonTemplateRefused ==
    /\ ev.op = "sft" /\ ~hd[ev.h].isTemplate =>
          ev.res = "exit" /\ ev.fx = {}
    /\ \A t \in Threads : th[t].op = "sft" => hd[th[t].h].isTemplate
    /\ \A j \in 1..Len(clones) : hd[clones[j].tmpl].isTemplate
    /\ \A h \in Handles :
          ~hd[h].isTemplate => DOMAIN dbs[h] \subseteq {DatabaseName}

\* StartFromTemplate on a running container that is no template has just
\* ended the test.
C9_Witness ==
    /\ ev.op = "sft"
    /\ ev.res = "exit"
    /\ ~hd[ev.h].isTemplate
    /\ Probe(ev.h)

\* C10: the closer of a clone releases the clone's client and removes the
\* clone's database, and changes nothing of the template container.
C10_CloserDropsClone ==
    /\ [](\A j \in 1..Len(clones) :
             clones[j].closerRun =>
                 /\ ~clones[j].open
                 /\ clones[j].name \notin DOMAIN dbs[clones[j].tmpl])
    /\ [][\A j \in 1..Len(clones) :
             ~clones[j].closerRun /\ clones'[j].closerRun =>
                 /\ hd' = hd
                 /\ DataIn(clones[j].tmpl, DatabaseName)' =
                       DataIn(clones[j].tmpl, DatabaseName)]_vars

\* C11: when a Close called by ContainerCache.Close fails, the loop ends
\* there: the goroutine leaves ContainerCache.Close with that error, no
\* other container's Close is entered and the mapping stays as it was; the
\* mapping is replaced, by an empty one, only when ContainerCache.Close
\* returns nil.
C11_CacheCloseStopsAtFirstError ==
    [][
        /\ (ev'.op = "close" /\ ev'.via = "cclose" /\ ev'.res # "nil") =>
              /\ cmu # 0
              /\ th'[cmu].pc = "idle"
              /\ cmu' = 0
              /\ cache' = cache
              /\ \A h \in Handles : (h # ev'.h) => (hd'[h] = hd[h])
        /\ (cache' # cache /\ DOMAIN cache' \subseteq DOMAIN cache) =>
              /\ cache' = EmptyCache
              /\ ev'.op = "cclose"
              /\ ev'.res = "nil"
    ]_vars

\* ContainerCache.Close has just returned the error of one container's
\* Close, and another container of the mapping is still running.
C11_Witness ==
    /\ ev.op = "close"
    /\ ev.via = "cclose"
    /\ ev.res = "err"
    /\ cmu = 0
    /\ \E k \in DOMAIN cache :
          /\ cache[k] # ev.h
          /\ ~hd[cache[k]].closed
          /\ Probe(cache[k])

\* C12: c.closed only ever goes from false to true; the runtime removes
\* the instance of a container at most once, whatever Close calls run
\* side by side; and a Close or a StartFromTemplate on a container that
\* is closed changes nothing of the container, of its instance or of its
\* server: Close returns nil having asked for nothing, StartFromTemplate
\* ends the test and makes no clone.
C12_ClosedIsFinal ==
    [][
        /\ \A h \in Handles :
              /\ hd[h].closed => hd'[h].closed
              /\ hd[h].inst = "purged" => hd'[h].inst = "purged"
        /\ \A t \in Threads :
              /\ ("purge" \notin th[t].fx /\ "purge" \in th'[t].fx) =>
                    /\ hd[th'[t].h].inst = "running"
                    /\ hd'[th'[t].h].inst = "purged"
              /\ (th[t].pc \in {"idle", "cc_iter"}
                     /\ th'[t].pc \in {"cl_revert", "cl_purge", "sft_connect"})
                    => ~hd[th'[t].h].closed
        /\ (ev'.op \in {"close", "sft"} /\ hd[ev'.h].closed) =>
              /\ ev'.res = IF ev'.op = "close" THEN "nil" ELSE "exit"
              /\ ev'.op = "close" => ev'.fx = {}
              /\ "connect" \notin ev'.fx
              /\ hd' = hd
              /\ dbs' = dbs
              /\ clones' = clones
    ]_vars

\* StartFromTemplate on a template container that a Close had closed has
\* just ended the test.
C12_Witness ==
    /\ ev.op = "sft"
    /\ ev.res = "exit"
    /\ hd[ev.h].closed
    /\ hd[ev.h].isTemplate
    /\ hd[ev.h].inst = "purged"
    /\ gh[ev.h].closeOK

\* C13: a Close in which a teardown step failed, the removal of the
\* instance or the close of the client, returns the error and leaves
\* c.closed false.
C13_FailedTeardownNotClosed ==
    (ev.op = "close" /\ {"purge failed", "dbclose failed"} \cap ev.fx # {}) =>
        /\ ev.res = "err"
        /\ ~hd[ev.h].closed

\* C14: when a post-start hook returns an error, Start is aborted: the
\* container is returned to nobody (and stored under no key), and its
\* instance, which was launched before, is gone in the end, removed by
\* the Close that Start registered as a cleanup or killed by the expiry.
C14_HookErrorAborts ==
    /\ [](\A h \in Handles :
             hk[h].failed =>
                 /\ gh[h].start = "aborted"
                 /\ \A k \in DOMAIN cache : cache[k] # h
                 /\ hd[h].inst # "none"
                 /\ hd[h].expiry)
    /\ \A h \in Handles :
          [](hk[h].failed => <>(hd[h].inst \in {"purged", "expired"}))

\* A hook failed, and the Close registered by Start has removed the
\* instance.
C14_Witness ==
    \E h \in Handles :
        /\ hk[h].failed
        /\ gh[h].start = "aborted"
        /\ hd[h].inst = "purged"
        /\ hd[h].closed

\* The hooks of the options opts, in the order the test gave them.
RECURSIVE Supplied(_)
Supplied(opts) ==
    IF opts = <<>> THEN <<>>
    ELSE Supplied(SubSeq(opts, 1, Len(opts) - 1)) \o opts[Len(opts)]

\* The places of list at which the hooks of ran stand, one after the
\* other, or none such.
InOrderOf(ran, list) ==
    \E pos \in [1..Len(ran) -> 1..Len(list)] :
        /\ \A i \in 1..Len(ran) : list[pos[i]] = ran[i]
        /\ \A i, j \in 1..Len(ran) : i < j => pos[i] < pos[j]

C16_AllOptionsRun ==
    \A h \in Handles :
        gh[h].start = "returned" => hk[h].ran = Supplied(hk[h].opts)

\* C17: when Start returns a container that was started as a template,
\* the database the container names is marked a template in its server
\* (as long as the instance has not expired in the meantime).
C17_TemplateMarked ==
    \A h \in Handles :
        ( /\ ev.op = "start"
          /\ ev.res = "ok"
          /\ ev.h = h
          /\ hd[h].isTemplate
          /\ DatabaseName \in DOMAIN dbs[h] ) =>
            dbs[h][DatabaseName].istemplate

\* An instance Start launched and that still runs.
Launched(h) == hd[h].inst = "running"

\* The docker runtime has ended the instance: purged or expired.
Terminated(h) == hd[h].inst \in {"purged", "expired"}

\* C18 as stated: every instance Start launched is terminated in the end,
\* whether Close is ever called or not.
C18_LaunchedTerminates ==
    \A h \in Handles : [](Launched(h) => <>Terminated(h))

\* C18: an instance for which Start registered the expiry is terminated
\* in the end, whether Close is ever called or not.  Start registers the
\* expiry of the timeout it was given, of 60 s when it was given none, for
\* every instance it launched: the expiry of an instance is missing only
\* while Start is about to register it, or when the registration failed,
\* and then Start is aborted.  A Start that returns has registered it.
C18_ExpiryTerminates ==
    /\ \A h \in Handles : [](hd[h].expiry => <>Terminated(h))
    /\ [](\A h \in Handles :
            /\ hd[h].expiry =>
                 /\ hd[h].inst # "none"
                 /\ hk[h].expireIn =
                      IF hk[h].given = 0 THEN 60 ELSE hk[h].given
            /\ (hd[h].inst # "none" /\ ~hd[h].expiry) =>
                 \/ \E t \in Threads : th[t].h = h /\ th[t].pc = "st_expire"
                 \/ gh[h].start = "aborted"
            /\ gh[h].start = "returned" => hd[h].expiry)

\* Start was given no timeout, returned, and nobody ever called Close:
\* the instance is gone after the 60 s.
C18_Witness ==
    \E h \in Handles :
        /\ gh[h].start = "returned"
        /\ ~gh[h].closeCalled
        /\ hk[h].given = 0
        /\ hk[h].expireIn = 60
        /\ hd[h].inst = "expired"

\* A nil input: the nil interface, or a nil pointer.
NilInput(e) == e = NilValue \/ e.nilptr

\* An error that has nothing to do with any of the predicates.
Unrelated(e) ==
    \/ Cause(e) = Sentinel("kaboom")
    \/ Cause(e) = PgError("57014")
    \/ (Cause(e).kind \in StatusKinds /\ ~Cause(e).nilptr
          /\ Cause(e).status \in OtherStatuses)

\* C19: every predicate answers false, and does not panic, when it is
\* asked about a nil input or about an error unrelated to it.
C19_NeverFails ==
    (cl.pred # "" /\ (NilInput(cl.err) \/ Unrelated(cl.err))) =>
        (cl.res = "false" /\ ~crashed)

\* C20: a predicate that answers true for an error answers true for that
\* error wrapped once or twice.
C20_SurvivesWrapping ==
    ( /\ cl.pred # ""
      /\ Depth(cl.err) \in 1..2
      /\ Apply(cl.pred, Cause(cl.err)) = "true" ) =>
        cl.res = "true"

\* C21: in every sequence of management calls on one name, create
\* returns true when the database did not exist before the call and false
\* without an error when it did, drop returns true when it existed and
\* false without an error when it did not, and exists returns whether the
\* database exists.
C21_CreateDropExists ==
    /\ adm.op = "create" => adm.res = Bool(~adm.before)
    /\ adm.op = "drop" => adm.res = Bool(adm.before)
    /\ adm.op = "exists" => adm.res = Bool(adm.name \in adm.exists)

\* C22: ParseHTTPResponse returns for every response and error what
\* ParseError returns for them.
C22_ParseHTTPResponseLikeParseError ==
    pr.op = "ParseHTTPResponse" => pr.out = ParseError(pr.res, pr.err)

\* C23: ParseError returns err when err is not nil; else nil when res is
\* nil; else nil when res is no error response; else the decoder's error
\* when the body does not decode; else an *Error with the status and the
\* details of the body.
C23_ParseErrorRules ==
    pr.op = "ParseError" =>
        /\ pr.err # "nil" => pr.out.kind = "err"
        /\ (pr.err = "nil" /\ pr.res.isnil) => pr.out = NilError
        /\ (pr.err = "nil" /\ ~pr.res.isnil /\ pr.res.code < 300) =>
               pr.out = NilError
        /\ (pr.err = "nil" /\ ~pr.res.isnil /\ pr.res.code >= 300) =>
               IF pr.res.body[1] = "json"
                 THEN pr.out = Outcome("*Error", pr.res.body[2], pr.res.body[3])
                 ELSE pr.out.kind = "decode"

\* ParseError was given an error response with a JSON error body and
\* returned the *Error.
C23_Witness ==
    /\ pr.op = "ParseError"
    /\ pr.res.code = StatusNotFound
    /\ pr.out = Outcome("*Error", StatusNotFound, "no such index")

\* C24: GetOrCreate returns a container, to the caller that created it
\* or to any other, only when the Start that createFunc called has
\* returned: the instance was launched, its expiry registered and the
\* client connected.  A container is stored under a key only then, and
\* while createFunc runs for a key its caller holds p.mu, the key is not
\* stored and the container has been returned to nobody.
C24_ObservedAfterStart ==
    /\ \A h \in gocReturned :
          /\ gh[h].start = "returned"
          /\ hd[h].inst # "none"
          /\ hd[h].expiry
          /\ hd[h].db # "nil"
    /\ \A k \in DOMAIN cache : gh[cache[k]].start = "returned"
    /\ \A t \in Threads :
          th[t].op = "goc" =>
              /\ cmu = t
              /\ gh[th[t].h].start = "running"
              /\ th[t].key \notin DOMAIN cache
              /\ th[t].h \notin gocReturned
              /\ \A u \in Threads \ {t} : th[u].op # "goc"

\* A caller got the container of a key from the cache after the caller
\* that created it had connected to it and returned.
C24_Witness ==
    /\ ev.op = "goc"
    /\ ev.res = "hit"
    /\ gh[ev.h].start = "returned"
    /\ hd[ev.h].db = "open"
    /\ hd[ev.h].inst = "running"
    /\ cmu = 0

\* C25 as stated: no goroutine ever holds the mutex of the cache and the
\* mutex of a container at the same time.
C25_NeverBothHeld ==
    \A t \in Threads, h \in Handles : ~(cmu = t /\ hd[h].mu = t)

\* C25: a goroutine holds the mutex of the cache and the mutex of a
\* container together only inside ContainerCache.Close, which takes the
\* container's mutex while it holds the cache's; no goroutine takes the
\* mutex of the cache while it holds the mutex of a container, so the two
\* are always taken in the same order.
C25_LockOrder ==
    /\ [](\A t \in Threads, h \in Handles :
            hd[h].mu = t =>
                /\ th[t].pc \in {"cl_revert", "cl_purge", "cl_db"}
                /\ th[t].h = h
                /\ cmu = t <=> th[t].op = "cclose")
    /\ [][\A t \in Threads :
             (cmu' = t /\ cmu # t) => \A h \in Handles : hd[h].mu # t]_vars

\* ContainerCache.Close is inside the Close of a stored container: its
\* goroutine holds both mutexes.
C25_Witness ==
    \E t \in Threads, h \in Handles :
        /\ cmu = t
        /\ hd[h].mu = t
        /\ th[t].op = "cclose"
        /\ th[t].pc = "cl_purge"

\* C26: the Close of a template container asks the runtime to purge the
\* instance only after its UPDATE that reverts the template flag has
\* succeeded, and closes the client only after the purge has succeeded.
C26_RevertPurgeClose ==
    /\ \A t \in Threads :
          (th[t].h \in Handles /\ hd[th[t].h].isTemplate) =>
              /\ th[t].pc = "cl_revert" => th[t].fx = {}
              /\ th[t].pc = "cl_purge" =>
                    /\ th[t].fx = {"revert"}
                    /\ hd[th[t].h].db = "open"
              /\ th[t].pc = "cl_db" =>
                    /\ th[t].fx = {"revert", "purge"}
                    /\ hd[th[t].h].inst = "purged"
                    /\ hd[th[t].h].db = "open"
    /\ (ev.op = "close" /\ ev.h \in Handles /\ hd[ev.h].isTemplate) =>
          /\ ev.fx \cap {"purge", "purge failed"} # {} => "revert" \in ev.fx
          /\ ev.fx \cap {"dbclose", "dbclose failed"} # {} =>
                {"revert", "purge"} \subseteq ev.fx
    /\ \A h \in Handles :
          (hd[h].isTemplate /\ hd[h].db = "closed") => hd[h].inst = "purged"

\* The Close of a template container went through its three steps and
\* returned nil.
C26_Witness ==
    /\ ev.op = "close"
    /\ ev.res = "nil"
    /\ hd[ev.h].isTemplate
    /\ ev.fx = {"revert", "purge", "dbclose"}

\* C27: Start returns a container only after the connect of the
\* readiness retry has succeeded and every hook it was given has been
\* called and has returned without an error; it calls no hook before the
\* connect has succeeded, and does not try to connect before the instance
\* was launched.
C27_ProbeHooksReturn ==
    /\ \A h \in Handles :
          /\ gh[h].start = "returned" =>
                /\ hd[h].db # "nil"
                /\ ~hk[h].failed
                /\ \A i \in 1..Len(Supplied(hk[h].opts)) :
                      \E j \in 1..Len(hk[h].ran) :
                          hk[h].ran[j] = Supplied(hk[h].opts)[i]
          /\ hk[h].ran # <<>> => hd[h].db # "nil"
          /\ hd[h].db # "nil" => hd[h].inst # "none"
    /\ \A t \in Threads :
          th[t].pc \in {"st_connect", "st_hooks"} => hd[th[t].h].inst # "none"

\* C28: createFunc runs with p.mu held by its caller.  While it runs, for
\* whatever key, no other goroutine is inside GetOrCreate or
\* ContainerCache.Close or enters one of them, no GetOrCreate returns a
\* stored container and no ContainerCache.Close returns; so no two
\* createFunc calls of one cache overlap.
C28_CreationsSerialized ==
    /\ [](\A t \in Threads :
            th[t].op = "goc" =>
                /\ cmu = t
                /\ \A u \in Threads \ {t} : th[u].op \notin {"goc", "cclose"})
    /\ [][\A t \in Threads :
             th[t].op = "goc" =>
                 /\ \A u \in Threads \ {t} : th'[u].op \notin {"goc", "cclose"}
                 /\ cmu' \in {0, t}
                 /\ ev'.op # "cclose"
                 /\ ev'.op = "goc" =>
                       /\ ev'.h = th[t].h
                       /\ ev'.res \in {"created", "exit"}]_vars

\* A createFunc is waiting for its instance while another key is stored
\* already: the other goroutine could get that container at once if p.mu
\* were free.
C28_Witness ==
    \E t \in Threads :
        /\ th[t].op = "goc"
        /\ th[t].pc = "st_connect"
        /\ cmu = t
        /\ DOMAIN cache # {}
        /\ th[t].key \notin DOMAIN cache

\* C29: while Start waits for the instance to be ready, a probe that
\* fails or that answers with a status other than 200 is followed by the
\* next probe; Start is aborted at this step only when the time for the
\* retry is used up.
C29_ProbeRetried ==
    [][\A t \in Threads :
          th[t].pc = "st_connect" =>
              /\ (ev'.res = "exit" /\ ev'.h = th[t].h) =>
                     th[t].probes = MaxProbes
              /\ (th'[t].pc = "st_connect" /\ th'[t] # th[t]) =>
                     th'[t] = [th[t] EXCEPT !.probes = @ + 1]]_vars

\* A Start whose first probes had failed got a ready answer in the end and
\* is about to return its container.
C29_Witness ==
    \E t \in Threads :
        /\ th[t].op = "start"
        /\ th[t].pc = "st_ret"
        /\ th[t].probes = MaxProbes
        /\ hd[th[t].h].db = "open"

\* C30: two StartFromTemplate calls on one template never generate the
\* same database name, whatever they read from the clock: the clones of
\* a template have different names, the calls in progress have different
\* names, and a call whose CREATE DATABASE failed had not generated the
\* name of a database that was there already.
C30_NamesUnique ==
    /\ \A i, j \in 1..Len(clones) :
          (i # j /\ clones[i].tmpl = clones[j].tmpl) =>
              clones[i].name # clones[j].name
    /\ \A t, u \in Threads :
          (t # u /\ th[t].pc = "sft_connect" /\ th[u].pc = "sft_connect"
             /\ th[t].h = th[u].h) => th[t].ts # th[u].ts
    /\ (ev.op = "sft" /\ "copy failed" \in ev.fx) =>
          CloneName(ev.ts) \notin DOMAIN dbs[ev.h]

\* C31: GetOrCreate never returns a container whose closed flag is set:
\* a container that was closed through its own Close, by a test or by the
\* cleanup that Start registered, is not served from the cache again.
C31_NeverServesClosed ==
    (ev.op = "goc" /\ ev.res \in {"hit", "created"}) => ~hd[ev.h].closed

\* C32: the Close that Start registered as a cleanup, called on a
\* container whose Start was aborted before a client was connected, does
\* not crash and does not use the unset client: it returns, and unless
\* the runtime refused the purge the instance is no longer running.
C32_CleanupCloseSafe ==
    (ev.op = "close" /\ ev.h \in Handles /\ gh[ev.h].start = "aborted"
       /\ hd[ev.h].db = "nil") =>
        /\ ev.res # "panic"
        /\ "purge failed" \notin ev.fx => hd[ev.h].inst # "running"

\* C33: no interleaving of GetOrCreate, ContainerCache.Close and
\* Container.Close leaves a call waiting for ever: every call that was
\* entered returns (or the process has ended in a panic, which takes a
\* createFunc that did not return), every mutex that is held is released,
\* and no goroutine takes the mutex of the cache while it holds the mutex
\* of a container.
C33_DeadlockFree ==
    /\ \A t \in Threads :
          (th[t].pc # "idle") ~> (th[t].pc = "idle" \/ crashed)
    /\ (cmu # 0) ~> (cmu = 0 \/ crashed)
    /\ \A h \in Handles : (hd[h].mu # 0) ~> (hd[h].mu = 0 \/ crashed)
    /\ [][\A t \in Threads, h \in Handles :
             hd[h].mu = t => ~(cmu' = t /\ cmu # t)]_vars

\* The loop of ContainerCache.Close, holding the mutex of the cache, has
\* to wait for a container whose mutex another goroutine holds inside
\* Container.Close.
C33_Witness ==
    \E t, u \in Threads :
        /\ t # u
        /\ th[t].pc = "cc_iter"
        /\ cmu = t
        /\ \E k \in th[t].todo : hd[cache[k]].mu = u

\* C34: when the UPDATE that reverts the template flag fails, the Close
\* of a template container returns an error and has neither asked the
\* runtime to purge the instance nor closed the client, and c.closed is
\* still false.
C34_FailedRevertStops ==
    [][(ev'.op = "close" /\ "revert failed" \in ev'.fx) =>
          /\ ev'.res = "err"
          /\ ev'.fx = {"revert failed"}
          /\ hd'[ev'.h].inst = hd[ev'.h].inst
          /\ hd'[ev'.h].db = hd[ev'.h].db
          /\ hd'[ev'.h].db # "closed"
          /\ ~hd'[ev'.h].closed
          /\ hd'[ev'.h].mu = 0]_vars

\* The Close of a running template container has returned the error of
\* the failed revert.
C34_Witness ==
    /\ ev.op = "close"
    /\ ev.fx = {"revert failed"}
    /\ ev.h \in Handles
    /\ hd[ev.h].isTemplate
    /\ hd[ev.h].inst = "running"
    /\ gh[ev.h].start = "returned"

\* C35: every value stored in the mapping of the cache is a container:
\* after a createFunc that returned nil nothing is stored for the key, so
\* GetOrCreate never answers a hit with nil and ContainerCache.Close
\* never fails on an entry without a container.
C35_OnlyContainersStored ==
    /\ \A k \in DOMAIN cache : cache[k] \in Handles
    /\ (ev.op = "goc" /\ ev.res = "hit") => ev.h \in Handles
    /\ ev.op = "cclose" => ev.res # "panic"

====
